---- MODULE Spec2Model ----
(***************************************************************************)
(* Model of the image optimizer CLI: imageOptimizer.js (hand-written       *)
(* argument loop) and its commander-based revision (src/unnamed/part_000). *)
(* A name is a sequence of one-character strings, a path is a sequence of  *)
(* names (the segments below the filesystem root), the filesystem is a     *)
(* function from the existing paths to their nodes.                        *)
(***************************************************************************)
EXTENDS Integers, Sequences, FiniteSets, TLC

(***************************************************************************)
(* Bounds of the model.                                                    *)
(***************************************************************************)
\* at most this many entries in the input tree
MaxEntries == 2
\* at most this many options on the command line
MaxOpts == 2
\* longest path (in segments) the filesystem accepts: mkdir of a longer
\* path throws ENAMETOOLONG
MaxPathLen == 4

(***************************************************************************)
(* Program constants.                                                      *)
(***************************************************************************)
MAX_WIDTH == 1920
DEFAULT_JPEG_QUALITY == 75
DEFAULT_PNG_QUALITY == 80
QUALITY_MIN == 1
QUALITY_MAX == 100

\* ".jpg", ".jpeg", ".png", ".webp", ".tiff", ".gif", ".avif", ".bmp"
SUPPORTED_EXT ==
  { <<".","j","p","g">>, <<".","j","p","e","g">>, <<".","p","n","g">>,
    <<".","w","e","b","p">>, <<".","t","i","f","f">>, <<".","g","i","f">>,
    <<".","a","v","i","f">>, <<".","b","m","p">> }

EXT_PNG == <<".","p","n","g">>
EXT_JPG == <<".","j","p","g">>

(***************************************************************************)
(* String helpers: String.prototype.toLowerCase, trim, number formatting.  *)
(***************************************************************************)
UpperChars == <<"A","B","C","D","E","F","G","H","I","J","K","L","M",
                "N","O","P","Q","R","S","T","U","V","W","X","Y","Z">>
LowerChars == <<"a","b","c","d","e","f","g","h","i","j","k","l","m",
                "n","o","p","q","r","s","t","u","v","w","x","y","z">>

LowerChar(c) ==
  IF \E i \in 1..Len(UpperChars) : UpperChars[i] = c
  THEN LowerChars[CHOOSE i \in 1..Len(UpperChars) : UpperChars[i] = c]
  ELSE c

toLowerCase(s) == [i \in 1..Len(s) |-> LowerChar(s[i])]

IsSpace(c) == c \in {" ", "\t", "\n"}

RECURSIVE trimStart(_)
trimStart(s) ==
  IF s # <<>> /\ IsSpace(Head(s)) THEN trimStart(Tail(s)) ELSE s

RECURSIVE trimEnd(_)
trimEnd(s) ==
  IF s # <<>> /\ IsSpace(s[Len(s)]) THEN trimEnd(SubSeq(s, 1, Len(s) - 1)) ELSE s

trim(s) == trimEnd(trimStart(s))

DigitChars == <<"0","1","2","3","4","5","6","7","8","9">>

\* the decimal digits of a natural number, as `${idx}` prints it
RECURSIVE NumToStr(_)
NumToStr(n) ==
  IF n < 10 THEN <<DigitChars[n + 1]>>
  ELSE NumToStr(n \div 10) \o <<DigitChars[(n % 10) + 1]>>

(***************************************************************************)
(* path.* helpers on names and paths.                                      *)
(***************************************************************************)
\* index of the last "." of a name, 0 if there is none
LastDot(name) ==
  IF \E i \in 1..Len(name) : name[i] = "."
  THEN CHOOSE i \in 1..Len(name) :
         name[i] = "." /\ \A j \in (i + 1)..Len(name) : name[j] # "."
  ELSE 0

\* path.extname: from the last "." on; "" when there is no "." or the only
\* "." is the first character of the name
extname(name) ==
  IF LastDot(name) <= 1 THEN <<>> ELSE SubSeq(name, LastDot(name), Len(name))

\* path.basename(p) of a non-root path: its last segment
basename(p) == IF p = <<>> THEN <<>> ELSE p[Len(p)]

\* path.basename(p, ext): the last segment without the suffix ext
basenameNoExt(p, ext) ==
  LET b == basename(p)
  IN IF ext # <<>> /\ Len(b) > Len(ext)
        /\ SubSeq(b, Len(b) - Len(ext) + 1, Len(b)) = ext
     THEN SubSeq(b, 1, Len(b) - Len(ext))
     ELSE b

\* path.dirname of a non-root path
dirname(p) == SubSeq(p, 1, Len(p) - 1)

IsPrefix(p, q) == Len(p) <= Len(q) /\ SubSeq(q, 1, Len(p)) = p

\* path.relative(from, to) for a path `to` at or below `from` (the walk only
\* ever builds such paths with path.join)
relative(from, to) == SubSeq(to, Len(from) + 1, Len(to))

(***************************************************************************)
(* Filesystem: nodes and the fs.* calls the program makes.                 *)
(***************************************************************************)
\* a directory, a symbolic link, an input image and a written image; every
\* node carries the same fields. width 0 stands for "no width" (undefined)
DirNode ==
  [kind |-> "dir", width |-> 0, health |-> "ok", enc |-> "none", quality |-> 0,
   palette |-> FALSE, reqWidth |-> 0, from |-> <<>>]
LinkNode == [DirNode EXCEPT !.kind = "link"]
SrcFile(w, h) == [DirNode EXCEPT !.kind = "file", !.width = w, !.health = h, !.enc = "src"]

existsSync(f, p) == p \in DOMAIN f

isDirectory(f, p) == p \in DOMAIN f /\ f[p].kind = "dir"

isFile(f, p) == p \in DOMAIN f /\ f[p].kind = "file"

Prefixes(p) == { SubSeq(p, 1, n) : n \in 0..Len(p) }

\* fs.mkdir(p, {recursive: true}) throws when the path is too long or a
\* prefix of it exists and is not a directory
mkdirThrows(f, p) ==
  \/ Len(p) > MaxPathLen
  \/ \E q \in Prefixes(p) : q \in DOMAIN f /\ f[q].kind # "dir"

\* fs.mkdir(p, {recursive: true}) when it does not throw
mkdir(f, p) ==
  [q \in DOMAIN f \cup Prefixes(p) |-> IF q \in DOMAIN f THEN f[q] ELSE DirNode]

\* fs.rm(p, {recursive: true, force: true})
rm(f, p) == [q \in { r \in DOMAIN f : ~IsPrefix(p, r) } |-> f[q]]

\* fs.readdir(dir): the entries directly inside dir
readdir(f, dir) == { q \in DOMAIN f : Len(q) = Len(dir) + 1 /\ IsPrefix(dir, q) }

\* fs.readdir(dir) throws ENOENT / ENOTDIR
readdirThrows(f, dir) == ~isDirectory(f, dir)

(***************************************************************************)
(* Command line.  An option is [flag, val]; val is the number that follows *)
(* -q / -P (0 for the flags that take none).                               *)
(***************************************************************************)
Opt(f, v) == [flag |-> f, val |-> v]

Defaults ==
  [jpegQuality |-> DEFAULT_JPEG_QUALITY, compressPNG |-> FALSE,
   pngQuality |-> DEFAULT_PNG_QUALITY, renameFiles |-> FALSE,
   forceDelete |-> FALSE, exit |-> FALSE]

\* the range test both parsers apply to a quality value
QualityInRange(v) == v >= QUALITY_MIN /\ v <= QUALITY_MAX

\* imageOptimizer.js: -P / --png-quality <n> also turns compressPNG on
PngQualityManual(c, v) == [c EXCEPT !.pngQuality = v, !.compressPNG = TRUE]

\* imageOptimizer.js: one turn of the loop over argv
ManualArg(c, o) ==
  CASE o.flag \in {"-q", "--quality"} ->
         IF QualityInRange(o.val) THEN [c EXCEPT !.jpegQuality = o.val]
         ELSE [c EXCEPT !.exit = TRUE]
    [] o.flag \in {"-P", "--png-quality"} ->
         IF QualityInRange(o.val) THEN PngQualityManual(c, o.val)
         ELSE [c EXCEPT !.exit = TRUE]
    [] o.flag = "--compress-png" -> [c EXCEPT !.compressPNG = TRUE]
    [] o.flag = "--rename" -> [c EXCEPT !.renameFiles = TRUE]
    [] o.flag = "--force-delete" -> [c EXCEPT !.forceDelete = TRUE]
    [] OTHER -> [c EXCEPT !.exit = TRUE]

\* commander revision: each option only sets its own value; compressPNG is
\* options.compressPng || false
CommanderArg(c, o) ==
  CASE o.flag \in {"-q", "--quality"} ->
         IF QualityInRange(o.val) THEN [c EXCEPT !.jpegQuality = o.val]
         ELSE [c EXCEPT !.exit = TRUE]
    [] o.flag \in {"-P", "--png-quality"} ->
         IF QualityInRange(o.val) THEN [c EXCEPT !.pngQuality = o.val]
         ELSE [c EXCEPT !.exit = TRUE]
    [] o.flag = "--compress-png" -> [c EXCEPT !.compressPNG = TRUE]
    [] o.flag = "--rename" -> [c EXCEPT !.renameFiles = TRUE]
    [] o.flag = "--force-delete" -> [c EXCEPT !.forceDelete = TRUE]
    [] OTHER -> [c EXCEPT !.exit = TRUE]

\* the whole command line, left to right; an invalid option exits at once
RECURSIVE ParseFrom(_, _, _)
ParseFrom(v, args, c) ==
  IF args = <<>> \/ c.exit THEN c
  ELSE ParseFrom(v, Tail(args),
                 IF v = "manual" THEN ManualArg(c, Head(args))
                 ELSE CommanderArg(c, Head(args)))

Parse(v, args) == ParseFrom(v, args, Defaults)

(***************************************************************************)
(* The inputs of a run: program revision, command line, directories and    *)
(* the filesystem the program starts on.                                   *)
(***************************************************************************)
Variants == {"manual", "commander"}

OptionUniverse ==
  << Opt("-q", 90), Opt("-P", 60), Opt("--png-quality", 101),
     Opt("--compress-png", 0), Opt("--rename", 0), Opt("--force-delete", 0) >>

\* command lines: the options at a set of at most MaxOpts positions of
\* OptionUniverse, in that order
RECURSIVE PickSeq(_, _)
PickSeq(I, from) ==
  IF from > Len(OptionUniverse) THEN <<>>
  ELSE (IF from \in I THEN <<OptionUniverse[from]>> ELSE <<>>) \o PickSeq(I, from + 1)

ArgvChoices ==
  { PickSeq(I, 1) : I \in { J \in SUBSET (1..Len(OptionUniverse)) : Cardinality(J) <= MaxOpts } }

N_in == <<"i","n">>
N_out == <<"o","u","t">>
N_s == <<"s">>
N_t == <<"t">>
N_awebp == <<"a",".","w","e","b","p">>
N_ajpg == <<"a",".","j","p","g">>
N_xbmp == <<"x",".","b","m","p">>
N_ntxt == <<"n",".","t","x","t">>
N_lgif == <<"l",".","g","i","f">>
N_bPNG == <<"b",".","P","N","G">>
N_e == <<"e">>
N_old == <<"o","l","d",".","j","p","g">>

\* input directory, output directory: apart, output inside input, the same
\* directory
PathPairs ==
  { [src |-> <<N_in>>, dest |-> <<N_out>>],
    [src |-> <<N_in>>, dest |-> <<N_in, N_out>>],
    [src |-> <<N_in>>, dest |-> <<N_in>>] }

\* what may lie under the input directory: path relative to it, and node;
\* the directories on the way to an entry exist with it
Entry(r, n) == [rel |-> r, node |-> n]

Candidates ==
  { Entry(<<N_awebp>>, SrcFile(0, "ok")),
    Entry(<<N_ajpg>>, SrcFile(1921, "ok")),
    Entry(<<N_xbmp>>, SrcFile(0, "badheader")),
    Entry(<<N_ntxt>>, SrcFile(0, "ok")),
    Entry(<<N_lgif>>, LinkNode),
    Entry(<<N_s, N_t, N_bPNG>>, SrcFile(1920, "ok")),
    Entry(<<N_e>>, DirNode) }

\* input trees: at most MaxEntries candidates
Trees == { T \in SUBSET Candidates : Cardinality(T) <= MaxEntries }

\* the output directory before the run: absent, empty, holding an earlier
\* result
OutStates == {"absent", "empty", "stale"}

RootFs == [q \in {<<>>} |-> DirNode]

Place(f, p, n) == [q \in DOMAIN f \cup {p} |-> IF q = p THEN n ELSE f[q]]

RECURSIVE PlaceAll(_, _, _)
PlaceAll(f, base, T) ==
  IF T = {} THEN f
  ELSE LET e == CHOOSE x \in T : TRUE
       IN PlaceAll(Place(mkdir(f, dirname(base \o e.rel)), base \o e.rel, e.node),
                   base, T \ {e})

\* the filesystem a run starts on
StartFs(pp, T, out, hasInput) ==
  LET f1 == IF hasInput THEN PlaceAll(mkdir(RootFs, pp.src), pp.src, T) ELSE RootFs
      f2 == IF out = "absent" THEN f1 ELSE mkdir(f1, pp.dest)
  IN IF out = "stale" THEN Place(f2, pp.dest \o <<N_old>>, SrcFile(640, "ok")) ELSE f2

(***************************************************************************)
(* State.                                                                  *)
(***************************************************************************)
VARIABLES
  variant,      \* which revision runs: "manual" (imageOptimizer.js) or "commander"
  argv,         \* the options of the command line
  srcDir, destDir,
  jpegQuality, compressPNG, pngQuality, renameFiles, forceDelete,
  fs,           \* the filesystem
  pc,           \* "parse", "start", "ask", "rm", "mkdir", "walk", "done", "fatal", "exit"
  answer,       \* what the user typed at the prompt (local to the prompt)
  stack,        \* the active processDir calls: [dir, entries still to visit]
  counters,     \* the Map of rename counters: top folder -> next index
  fs0,          \* history: the filesystem when the program started
  asked,        \* history: the prompt was shown
  deleted,      \* history: fs.rm ran on the output directory
  log           \* history: one record per optimiseImage call, in call order

vars ==
  << variant, argv, srcDir, destDir, jpegQuality, compressPNG, pngQuality,
     renameFiles, forceDelete, fs, pc, answer, stack, counters, fs0, asked,
     deleted, log >>

config == << variant, argv, srcDir, destDir >>
options == << jpegQuality, compressPNG, pngQuality, renameFiles, forceDelete >>

NoAnswer == <<"-">>

EmptyMap == [k \in {} |-> 0]

\* what the user may type at the prompt
Answers ==
  { <<"y">>, <<" ","Y","e","S"," ">>, <<>>, <<"n">>, <<"y","e">>, <<"y","e","s","!">> }

Apart == [src |-> <<N_in>>, dest |-> <<N_out>>]

\* An output directory with earlier content is taken with the two
\* directories apart; a run that ends before it looks at the filesystem
\* (bad option, no input directory) starts on the smallest one.
Init ==
  /\ variant \in Variants
  /\ argv \in ArgvChoices
  /\ \E pp \in PathPairs, T \in Trees, out \in OutStates, hasInput \in BOOLEAN :
       /\ out # "absent" => pp = Apart
       /\ (~hasInput \/ Parse(variant, argv).exit) => (T = {} /\ out = "absent" /\ pp = Apart)
       /\ Parse(variant, argv).exit => hasInput
       /\ srcDir = pp.src
       /\ destDir = pp.dest
       /\ fs = StartFs(pp, T, out, hasInput)
  /\ fs0 = fs
  /\ jpegQuality = Defaults.jpegQuality
  /\ compressPNG = Defaults.compressPNG
  /\ pngQuality = Defaults.pngQuality
  /\ renameFiles = Defaults.renameFiles
  /\ forceDelete = Defaults.forceDelete
  /\ pc = "parse"
  /\ answer = NoAnswer
  /\ stack = <<>>
  /\ counters = EmptyMap
  /\ asked = FALSE
  /\ deleted = FALSE
  /\ log = <<>>

(***************************************************************************)
(* Start-up: command line, input check, the existing output directory.     *)
(***************************************************************************)
\* the CLI parsing section / program.parse(process.argv)
ParseArgs ==
  /\ pc = "parse"
  /\ LET c == Parse(variant, argv)
     IN /\ jpegQuality' = c.jpegQuality
        /\ compressPNG' = c.compressPNG
        /\ pngQuality' = c.pngQuality
        /\ renameFiles' = c.renameFiles
        /\ forceDelete' = c.forceDelete
        /\ pc' = IF c.exit THEN "exit" ELSE "start"
  /\ UNCHANGED << config, fs, answer, stack, counters, fs0, asked, deleted, log >>

\* the prompt is needed: the output directory exists and is not empty
OutputExistsOnly(f, d) == existsSync(f, d)
OutputOccupied(f, d) == existsSync(f, d) /\ readdir(f, d) # {}

\* existsSync(srcDir), existsSync(destDir), readdir(destDir), forceDelete
CheckDirs ==
  /\ pc = "start"
  /\ pc' = IF ~existsSync(fs, srcDir) THEN "exit"
           ELSE IF existsSync(fs, destDir) /\ readdirThrows(fs, destDir) THEN "fatal"
           ELSE IF ~OutputOccupied(fs, destDir) THEN "mkdir"
           ELSE IF forceDelete THEN "rm"
           ELSE "ask"
  /\ UNCHANGED << config, options, fs, answer, stack, counters, fs0, asked, deleted, log >>

\* /^y(es)?$/i
RegexYesLoose(s) == Len(s) >= 1 /\ LowerChar(s[1]) = "y"
RegexYes(s) ==
  /\ Len(s) \in {1, 3}
  /\ LowerChar(s[1]) = "y"
  /\ Len(s) = 3 => LowerChar(s[2]) = "e" /\ LowerChar(s[3]) = "s"

\* askYesNo: the test of the trimmed answer
askYesNo(a) == RegexYes(trim(a))

\* the prompt: await askYesNo(...)
Ask ==
  /\ pc = "ask"
  /\ \E a \in Answers :
       /\ answer' = a
       /\ pc' = IF askYesNo(a) THEN "rm" ELSE "mkdir"
  /\ asked' = TRUE
  /\ UNCHANGED << config, options, fs, stack, counters, fs0, deleted, log >>

\* fs.rm(destDir, {recursive: true, force: true})
Rm ==
  /\ pc = "rm"
  /\ fs' = rm(fs, destDir)
  /\ deleted' = TRUE
  /\ pc' = "mkdir"
  /\ UNCHANGED << config, options, answer, stack, counters, fs0, asked, log >>

(***************************************************************************)
(* optimiseImage.                                                          *)
(***************************************************************************)
\* counters.get(folder) || 1
CounterOfStuck(m, folder) == 1
CounterOf(m, folder) == IF folder \in DOMAIN m THEN m[folder] ELSE 1

\* nextIndex / getNextIndex: the Map after the call
nextIndex(m, folder) ==
  [k \in DOMAIN m \cup {folder} |->
     IF k = folder THEN CounterOf(m, folder) + 1 ELSE m[k]]

\* relDir, and top = parts.length ? parts[0] : path.basename(srcDir)
relDirOf(filePath) == relative(srcDir, dirname(filePath))

topOf(filePath) ==
  IF relDirOf(filePath) # <<>> THEN relDirOf(filePath)[1] ELSE basename(srcDir)

\* newBase = renameFiles ? `${top}-${idx}` : baseName
newBase(filePath, idx) ==
  IF renameFiles THEN topOf(filePath) \o <<"-">> \o NumToStr(idx)
  ELSE basenameNoExt(filePath, extname(basename(filePath)))

\* ext as processDir passes it / sourceExt
sourceExt(filePath) == toLowerCase(extname(basename(filePath)))

\* destExt = ext === ".png" ? ".png" : ".jpg"
destExtCased(filePath) == IF extname(basename(filePath)) = EXT_PNG THEN EXT_PNG ELSE EXT_JPG
destExt(filePath) == IF sourceExt(filePath) = EXT_PNG THEN EXT_PNG ELSE EXT_JPG

\* destPath = path.join(destDir, relDir, newBase + destExt)
destPathFlat(filePath, idx) == destDir \o << newBase(filePath, idx) \o destExt(filePath) >>
destPath(filePath, idx) ==
  destDir \o relDirOf(filePath) \o << newBase(filePath, idx) \o destExt(filePath) >>

\* sharp(filePath).metadata() throws
metadataThrows(f, filePath) == ~isFile(f, filePath) \/ f[filePath].health = "badheader"

\* width: meta.width && meta.width > 1920 ? 1920 : undefined   (0: undefined)
resizeWidthInclusive(w) == IF w # 0 /\ w >= MAX_WIDTH THEN MAX_WIDTH ELSE 0
resizeWidth(w) == IF w # 0 /\ w > MAX_WIDTH THEN MAX_WIDTH ELSE 0

\* the encoder chosen for the extension
encoder(ext) ==
  IF ext = EXT_PNG
  THEN IF compressPNG THEN [enc |-> "png", quality |-> pngQuality, palette |-> TRUE]
       ELSE [enc |-> "png", quality |-> 0, palette |-> FALSE]
  ELSE [enc |-> "jpeg", quality |-> jpegQuality, palette |-> FALSE]

\* pipeline.toFile(destPath) throws: undecodable input, the input file itself,
\* a directory in the way, no parent directory, path too long
toFileThrows(f, filePath, dest) ==
  \/ f[filePath].health # "ok"
  \/ dest = filePath
  \/ isDirectory(f, dest)
  \/ ~isDirectory(f, dirname(dest))
  \/ Len(dest) > MaxPathLen

\* the file toFile writes
Written(f, filePath, req, e) ==
  [kind |-> "file", width |-> IF req # 0 THEN req ELSE f[filePath].width,
   health |-> "ok", enc |-> e.enc, quality |-> e.quality, palette |-> e.palette,
   reqWidth |-> req, from |-> filePath]

\* the whole of optimiseImage(filePath): [fs, counters, rec], rec the call's
\* log record; outcome is "ok" or the step that threw
optimiseImage(f, m, filePath) ==
  LET top  == topOf(filePath)
      idx  == IF renameFiles THEN CounterOf(m, top) ELSE 0
      m2   == IF renameFiles THEN nextIndex(m, top) ELSE m
      ext  == sourceExt(filePath)
      dest == destPath(filePath, idx)
      dir  == dirname(dest)
      e    == encoder(ext)
      mkFirst == variant = "commander"
      \* the filesystem when metadata() runs
      f1   == IF mkFirst /\ ~mkdirThrows(f, dir) THEN mkdir(f, dir) ELSE f
      req  == IF metadataThrows(f1, filePath) THEN 0 ELSE resizeWidth(f1[filePath].width)
      \* the filesystem when toFile() runs
      f2   == IF ~mkFirst /\ ~metadataThrows(f1, filePath) /\ ~mkdirThrows(f1, dir)
              THEN mkdir(f1, dir) ELSE f1
      outcome ==
        IF mkFirst /\ mkdirThrows(f, dir) THEN "mkdir"
        ELSE IF metadataThrows(f1, filePath) THEN "metadata"
        ELSE IF ~mkFirst /\ mkdirThrows(f1, dir) THEN "mkdir"
        ELSE IF toFileThrows(f2, filePath, dest) THEN "toFile"
        ELSE "ok"
      f3   == IF outcome = "ok" THEN Place(f2, dest, Written(f2, filePath, req, e)) ELSE f2
  IN [fs |-> f3, counters |-> m2,
      rec |-> [file |-> filePath, ext |-> ext, top |-> top, idx |-> idx,
               dest |-> dest, reqWidth |-> req,
               srcWidth |-> IF outcome \in {"ok", "toFile"} THEN f1[filePath].width ELSE 0,
               enc |-> e.enc, quality |-> e.quality,
               palette |-> e.palette, outcome |-> outcome]]

(***************************************************************************)
(* processDir: the recursive walk, as a stack of calls.                    *)
(***************************************************************************)
\* fs.readdir(dir, {withFileTypes: true}): each entry with the type it has
\* when the directory is read
Dirents(f, dir) == { [path |-> q, kind |-> f[q].kind] : q \in readdir(f, dir) }

Frame(f, dir) == [dir |-> dir, entries |-> Dirents(f, dir)]

\* a for loop with nothing left returns to its caller
RECURSIVE Unwind(_)
Unwind(st) ==
  IF st # <<>> /\ st[Len(st)].entries = {} THEN Unwind(SubSeq(st, 1, Len(st) - 1)) ELSE st

\* the top call's loop moves past entry e
Past(st, e) == [st EXCEPT ![Len(st)].entries = @ \ {e}]

\* SUPPORTED_EXT.has(path.extname(entry.name).toLowerCase())
Supported(q) == sourceExt(q) \in SUPPORTED_EXT

\* entry.isFile() and the extension test
IsImageEntry(e) == e.kind = "file" /\ Supported(e.path)

\* fs.mkdir(destDir, {recursive: true}); processDir(srcDir)
MkdirDest ==
  /\ pc = "mkdir"
  /\ IF mkdirThrows(fs, destDir) THEN
       /\ pc' = "fatal"
       /\ UNCHANGED << fs, stack >>
     ELSE
       /\ fs' = mkdir(fs, destDir)
       /\ IF readdirThrows(fs', srcDir) THEN
            /\ pc' = "fatal"
            /\ stack' = <<>>
          ELSE
            /\ stack' = Unwind(<<Frame(fs', srcDir)>>)
            /\ pc' = IF stack' = <<>> THEN "done" ELSE "walk"
  /\ answer' = NoAnswer
  /\ UNCHANGED << config, options, counters, fs0, asked, deleted, log >>

\* the mirrored directory of a sub-directory of the input
mirrorOf(fullPath) == destDir \o relative(srcDir, fullPath)

\* entry.isDirectory(): mkdir of the mirrored directory, then processDir(fullPath)
VisitDir ==
  /\ pc = "walk"
  /\ \E e \in stack[Len(stack)].entries :
       /\ e.kind = "dir"
       /\ IF mkdirThrows(fs, mirrorOf(e.path)) THEN
            /\ pc' = "fatal"
            /\ UNCHANGED << fs, stack >>
          ELSE
            /\ fs' = mkdir(fs, mirrorOf(e.path))
            /\ IF readdirThrows(fs', e.path) THEN
                 /\ pc' = "fatal"
                 /\ UNCHANGED stack
               ELSE
                 /\ stack' = Unwind(Append(Past(stack, e), Frame(fs', e.path)))
                 /\ pc' = IF stack' = <<>> THEN "done" ELSE "walk"
  /\ UNCHANGED << config, options, answer, counters, fs0, asked, deleted, log >>

\* try { ... } catch (err) { console.error(...) }: optimiseImage returns
\* normally whatever happened inside, and the loop goes on
pcAfterImageRethrow(outcome, st) ==
  IF outcome # "ok" THEN "fatal" ELSE IF st = <<>> THEN "done" ELSE "walk"
pcAfterImage(outcome, st) == IF st = <<>> THEN "done" ELSE "walk"

\* entry.isFile() with a supported extension: await optimiseImage(fullPath)
VisitImage ==
  /\ pc = "walk"
  /\ \E e \in stack[Len(stack)].entries :
       /\ IsImageEntry(e)
       /\ LET r == optimiseImage(fs, counters, e.path)
          IN /\ fs' = r.fs
             /\ counters' = r.counters
             /\ log' = Append(log, r.rec)
             /\ stack' = Unwind(Past(stack, e))
             /\ pc' = pcAfterImage(r.rec.outcome, stack')
  /\ UNCHANGED << config, options, answer, fs0, asked, deleted >>

\* any other entry is passed over
SkipEntry ==
  /\ pc = "walk"
  /\ \E e \in stack[Len(stack)].entries :
       /\ e.kind # "dir"
       /\ ~IsImageEntry(e)
       /\ stack' = Unwind(Past(stack, e))
       /\ pc' = IF stack' = <<>> THEN "done" ELSE "walk"
  /\ UNCHANGED << config, options, fs, answer, counters, fs0, asked, deleted, log >>

Next ==
  \/ ParseArgs
  \/ CheckDirs
  \/ Ask
  \/ Rm
  \/ MkdirDest
  \/ VisitDir
  \/ VisitImage
  \/ SkipEntry

Spec == Init /\ [][Next]_vars

(***************************************************************************)
(* Properties.                                                             *)
(***************************************************************************)
Records == { log[i] : i \in 1..Len(log) }

\* the last n characters of a name, in lower case
LowerTail(name, n) ==
  IF Len(name) < n THEN <<>> ELSE toLowerCase(SubSeq(name, Len(name) - n + 1, Len(name)))

\* the written files of the filesystem
IsWritten(q) == fs[q].kind = "file" /\ fs[q].from # <<>>

\* C1: every processed image is resized to width exactly 1920 when its
\* source is wider than 1920 and gets no width request otherwise, so no
\* written file is wider than 1920 or than its source
C1_ResizeOnlyAbove1920 ==
  /\ \A r \in Records : r.outcome = "ok" =>
       /\ r.reqWidth <= 1920
       /\ r.srcWidth > 1920 => r.reqWidth = 1920
       /\ r.srcWidth <= 1920 => r.reqWidth = 0
  /\ \A q \in DOMAIN fs : IsWritten(q) =>
       /\ fs[q].width <= 1920
       /\ fs[q].reqWidth = 0 \/ fs[q].width = fs[q].reqWidth

\* a run that wrote one image resized to 1920 and one with its width kept
C1_Witness ==
  /\ pc = "done"
  /\ \E r \in Records : r.outcome = "ok" /\ r.srcWidth > 1920 /\ r.reqWidth = 1920
  /\ \E r \in Records : r.outcome = "ok" /\ r.srcWidth = 1920 /\ r.reqWidth = 0

\* the last four characters of a name, as they are
Tail4(name) == IF Len(name) < 4 THEN <<>> ELSE SubSeq(name, Len(name) - 3, Len(name))

\* the JPEG quality the command line asks for
ConfiguredJpegQuality ==
  IF \E i \in 1..Len(argv) : argv[i].flag = "-q" THEN 90 ELSE 75

\* C2: the destination is .png with the PNG encoder exactly when the source
\* name ends in .png in any case; otherwise it is .jpg with the JPEG encoder
\* at the configured JPEG quality
C2_PngStaysPngElseJpeg ==
  \A r \in Records :
    LET src == r.file[Len(r.file)]
        dst == r.dest[Len(r.dest)]
        png == LowerTail(src, 4) = <<".","p","n","g">>
    IN /\ png <=> Tail4(dst) = <<".","p","n","g">>
       /\ png <=> r.enc = "png"
       /\ ~png => /\ Tail4(dst) = <<".","j","p","g">>
                  /\ r.enc = "jpeg"
                  /\ r.quality = ConfiguredJpegQuality
       /\ r.outcome = "ok" =>
            \E q \in DOMAIN fs : q = r.dest /\ IsWritten(q) /\ (png <=> fs[q].enc = "png")

\* a run that wrote a PNG from an upper-case .PNG and a JPEG at a quality
\* given on the command line
C2_Witness ==
  /\ pc = "done"
  /\ jpegQuality = 90
  /\ \E r \in Records :
       /\ r.outcome = "ok" /\ r.enc = "png"
       /\ Tail4(r.file[Len(r.file)]) = <<".","P","N","G">>
  /\ \E r \in Records : r.outcome = "ok" /\ r.enc = "jpeg" /\ r.quality = 90

\* the directories and files at or below a directory
Below(f, d) == { q \in DOMAIN f : IsPrefix(d, q) /\ q # d }

\* C3: at Done every directory under the input directory exists at the same
\* relative path under the output directory, and every written image lies
\* in the output directory at the relative directory of its source
C3_HierarchyMirrored ==
  pc = "done" =>
    /\ \A q \in Below(fs, srcDir) : fs[q].kind = "dir" =>
         LET m == destDir \o SubSeq(q, Len(srcDir) + 1, Len(q))
         IN m \in DOMAIN fs /\ fs[m].kind = "dir"
    /\ \A r \in Records : r.outcome = "ok" =>
         /\ r.dest \in DOMAIN fs /\ fs[r.dest].kind = "file"
         /\ SubSeq(r.dest, 1, Len(r.dest) - 1)
              = destDir \o SubSeq(r.file, Len(srcDir) + 1, Len(r.file) - 1)

\* a finished run over an input with an empty directory and an image two
\* directories down, the output directory apart from the input
C3_Witness ==
  /\ pc = "done"
  /\ srcDir = <<N_in>> /\ destDir = <<N_out>>
  /\ <<N_in, N_e>> \in DOMAIN fs /\ <<N_out, N_e>> \in DOMAIN fs
  /\ \E r \in Records : r.outcome = "ok" /\ Len(r.file) = Len(srcDir) + 3

\* the records before position i that count for the same top folder
EarlierSameTop(i) == { j \in 1..(i - 1) : log[j].top = log[i].top }

\* the top folder of a source file: the first segment of its directory
\* below the input directory, the input directory's own name at its root
ClaimTop(file) ==
  IF Len(file) > Len(srcDir) + 1 THEN file[Len(srcDir) + 1] ELSE srcDir[Len(srcDir)]

\* a name up to its last ".", and from it on
Stem(name) == SubSeq(name, 1, LastDot(name) - 1)
Suffix(name) == SubSeq(name, LastDot(name), Len(name))

\* C4: with --rename the i-th dispatched file is named <top>-<k>.<ext>, k
\* one more than the number of files dispatched before it for the same top
\* folder; without --rename the base name is kept
C4_RenameNumbering ==
  /\ \A i \in 1..Len(log) :
       LET r == log[i]
           dst == r.dest[Len(r.dest)]
           k == Cardinality(EarlierSameTop(i)) + 1
       IN /\ r.top = ClaimTop(r.file)
          /\ renameFiles =>
               /\ r.idx = k
               /\ Stem(dst) = ClaimTop(r.file) \o <<"-">> \o NumToStr(k)
          /\ ~renameFiles => Stem(dst) = Stem(r.file[Len(r.file)])
          /\ Suffix(dst) \in {<<".","p","n","g">>, <<".","j","p","g">>}
  /\ renameFiles =>
       \A t \in DOMAIN counters :
         counters[t] = Cardinality({ j \in 1..Len(log) : log[j].top = t }) + 1
  /\ ~renameFiles => counters = EmptyMap

\* a renaming run that numbered a second file of one top folder and a first
\* file of another
C4_Witness ==
  /\ renameFiles
  /\ \E r \in Records : r.idx = 2 /\ r.outcome = "ok"
  /\ \E r1, r2 \in Records : r1.top # r2.top /\ r1.idx = 1 /\ r2.idx = 1

\* the command line gives a flag
Given(flag) == \E i \in 1..Len(argv) : argv[i].flag = flag

\* the output directory when the program started: there, and with content
Exists0 == destDir \in DOMAIN fs0
NonEmpty0 == \E q \in DOMAIN fs0 : Len(q) = Len(destDir) + 1 /\ SubSeq(q, 1, Len(destDir)) = destDir

\* the run is past the preparation of the output directory
Prepared == pc \in {"walk", "done", "fatal"}

MeansYes(a) == toLowerCase(trim(a)) \in { <<"y">>, <<"y","e","s">> }

\* what the output directory held at the start
Kept0 == { q \in DOMAIN fs0 : Len(q) >= Len(destDir) /\ SubSeq(q, 1, Len(destDir)) = destDir }

\* C6: the earlier content of the output directory is deleted only with
\* --force-delete or after an answer of y or yes; after any other answer
\* nothing is deleted, the directory stays and the run goes on into it
C6_DeleteOnlyOnYesOrForce ==
  /\ pc = "rm" => Given("--force-delete") \/ (asked /\ MeansYes(answer))
  /\ deleted => Given("--force-delete") \/ asked
  /\ (asked /\ answer # NoAnswer /\ ~MeansYes(answer)) =>
       pc = "mkdir" /\ fs = fs0 /\ ~deleted
  /\ ~deleted => \A q \in Kept0 : q \in DOMAIN fs /\ fs[q].kind = fs0[q].kind
  /\ (asked /\ ~deleted /\ Prepared) => pc \in {"walk", "done"}

\* a finished run in which the user was asked, nothing was deleted, the
\* earlier result is still there and a new image was written beside it
C6_Witness ==
  /\ pc = "done" /\ asked /\ ~deleted
  /\ (destDir \o <<N_old>>) \in DOMAIN fs
  /\ \E r \in Records : r.outcome = "ok" /\ r.dest \in DOMAIN fs

\* the value of -P / --png-quality on the command line, 0 if not given
PngQualityGiven ==
  IF \E i \in 1..Len(argv) : argv[i].flag \in {"-P", "--png-quality"}
  THEN (CHOOSE o \in { argv[i] : i \in 1..Len(argv) } : o.flag \in {"-P", "--png-quality"}).val
  ELSE 0

\* C7: with -P n every processed PNG is quantised (palette) at quality n,
\* with or without --compress-png; with neither option it is lossless
C7_PngQualityImpliesCompress ==
  \A r \in Records :
    (r.outcome = "ok" /\ LowerTail(r.file[Len(r.file)], 4) = <<".","p","n","g">>) =>
      /\ PngQualityGiven # 0 => r.palette /\ r.quality = PngQualityGiven
      /\ (PngQualityGiven = 0 /\ ~Given("--compress-png")) => ~r.palette /\ r.quality = 0

\* the name has one of the eight extensions, in any case
HasImageExt(name) ==
  LastDot(name) > 1 /\ toLowerCase(Suffix(name)) \in SUPPORTED_EXT

\* C8: at Done every regular file under the input directory with one of the
\* eight extensions was passed to optimiseImage exactly once, and nothing
\* else was passed to it or produced an output
C8_EachImageDispatchedOnce ==
  pc = "done" =>
    /\ \A q \in Below(fs, srcDir) :
         (fs[q].kind = "file" /\ HasImageExt(q[Len(q)])) =>
           Cardinality({ i \in 1..Len(log) : log[i].file = q }) = 1
    /\ \A r \in Records :
         /\ r.file \in Below(fs, srcDir)
         /\ fs[r.file].kind = "file"
         /\ HasImageExt(r.file[Len(r.file)])

\* all entries the active processDir calls have still to visit
Pending(st) == UNION { st[i].entries : i \in 1..Len(st) }

\* C9: a call of optimiseImage that fails does not end the run: the walk
\* goes on to Done or to the next entry, every other pending entry stays
\* pending, and everything in the filesystem before the call is left as it
\* was
C9_FailureDoesNotAbort ==
  [][ (Len(log') = Len(log) + 1 /\ log'[Len(log')].outcome # "ok") =>
        /\ pc' \in {"walk", "done"}
        /\ pc' = "done" <=> Pending(stack') = {}
        /\ Pending(stack') = { e \in Pending(stack) : e.path # log'[Len(log')].file }
        /\ \A q \in DOMAIN fs : q \in DOMAIN fs' /\ fs'[q] = fs[q] ]_vars

\* a finished run in which an image failed and a later one was written
C9_Witness ==
  /\ pc = "done"
  /\ \E i, j \in 1..Len(log) : i < j /\ log[i].outcome # "ok" /\ log[j].outcome = "ok"

\* C10: the walk terminates at Done: no run that started the walk stops
\* anywhere else (the descent of a walk that would not end is cut by the
\* longest path the filesystem takes, which stops the run with a fatal error)
C10_WalkTerminates == pc # "fatal"

\* what lies at or below the input directory, with its content
InputTree(f) ==
  [q \in { r \in DOMAIN f : Len(r) >= Len(srcDir) /\ SubSeq(r, 1, Len(srcDir)) = srcDir } |-> f[q]]

\* the run is over
Ended == pc \in {"done", "fatal", "exit"}

\* C11: the input tree is read-only: when a run is over, what lies at or
\* below the input directory is what was there when the program started:
\* nothing deleted, nothing overwritten, nothing created
C11_InputReadOnly == Ended => InputTree(fs) = InputTree(fs0)

\* the calls of optimiseImage that wrote their file
OkCalls == { i \in 1..Len(log) : log[i].outcome = "ok" }

\* C12: no two source images of a run are written to the same destination
\* path, so no written file is overwritten by a later one and there are as
\* many written files as successfully processed images
C12_DestinationsDistinct ==
  /\ \A i, j \in OkCalls : log[i].file # log[j].file => log[i].dest # log[j].dest
  /\ Cardinality({ q \in DOMAIN fs : IsWritten(q) }) = Cardinality(OkCalls)

====
